---- MODULE Spec2Model ----
(***************************************************************************)
(* Model of backend/server.py: the CSV normalizer                          *)
(* (parse_csv_to_properties), the property store (db.properties) with its  *)
(* mutating handlers, and the aggregation handlers.                        *)
(*                                                                         *)
(* Numbers are integers; a float that is NaN is the record NaN.  uuid4 is  *)
(* a fresh-id counter, datetime.utcnow a clock that never goes back.       *)
(***************************************************************************)
EXTENDS Integers, Sequences, FiniteSets, TLC

\* ------------------------------------------------------------------ bounds
MaxRows == 2
MaxId == 3
MaxClock == 1
MaxRefs == 4

\* ------------------------------------------------------- values and cells
\* A float: a number or NaN.
Num(n) == [nan |-> FALSE, v |-> n]
NaN == [nan |-> TRUE, v |-> 0]

\* A cell of the text of a CSV file: empty, digits spelling n, other text.
RawEmpty == [k |-> "empty", n |-> 0]
RawNum(n) == [k |-> "digits", n |-> n]
RawText(n) == [k |-> "text", n |-> n]

\* A cell of the DataFrame: a missing value (NaN/None), a number of a numeric
\* column, a string spelling a number (object column), any other string.
CellNaN == [k |-> "nan", n |-> 0]
CellFloat(n) == [k |-> "float", n |-> n]
CellNumStr(n) == [k |-> "numstr", n |-> n]
CellText(n) == [k |-> "text", n |-> n]

\* ----------------------------------------------------------- pd.read_csv
\* A CSV document: unparseable bytes, or a header and rows.  Every row is a
\* record whose fields are the header's column names.
Unparseable == [ok |-> FALSE, rows |-> <<>>]
Csv(rows) == [ok |-> TRUE, rows |-> rows]

\* A column holding any non-numeric text is read as an object column: its
\* numbers stay strings.  Otherwise it is numeric.  Empty cells are NaN.
IsObjectColumn(rows, col) ==
    \E i \in DOMAIN rows : rows[i][col].k = "text"

ReadCell(rows, col, raw) ==
    CASE raw.k = "empty" -> CellNaN
      [] raw.k = "text" -> CellText(raw.n)
      [] OTHER -> IF IsObjectColumn(rows, col) THEN CellNumStr(raw.n)
                  ELSE CellFloat(raw.n)

read_csv(csv) ==
    [i \in DOMAIN csv.rows |->
        [col \in DOMAIN csv.rows[i] |-> ReadCell(csv.rows, col, csv.rows[i][col])]]

\* row.get(col, default)
RowGet(row, col, default) ==
    IF col \in DOMAIN row THEN row[col] ELSE default

\* pd.isna
isna(cell) == cell.k = "nan"

\* float(x) / int(x) raise ValueError on a string that spells no number.
Raises(cell) == cell.k = "text"

ToFloat(cell) ==
    IF cell.k = "nan" THEN NaN ELSE Num(cell.n)

ToInt(cell) == cell.n

\* ------------------------------------------------ parse_csv_to_properties
None == [null |-> TRUE, v |-> 0]
Some(n) == [null |-> FALSE, v |-> n]

\* Rows without a latitude or a longitude value are skipped.
SkipsRow(row) ==
    \/ isna(RowGet(row, "latitude", CellNaN))
    \/ isna(RowGet(row, "longitude", CellNaN))

\* A row that is not skipped raises ValueError when float(price), int(rooms),
\* float(lng) or float(lat) is given a string that spells no number.
RowRaises(row) ==
    \/ Raises(RowGet(row, "price", CellFloat(0)))
    \/ /\ ~isna(RowGet(row, "rooms", CellNaN))
       /\ Raises(RowGet(row, "rooms", CellFloat(0)))
    \/ Raises(RowGet(row, "longitude", CellNaN))
    \/ Raises(RowGet(row, "latitude", CellNaN))

\* Fault injection: latitude first.
property_data_swapped(row, is_rental, id, clock) ==
    [id |-> id,
     price |-> ToFloat(RowGet(row, "price", CellFloat(0))),
     rooms |-> IF isna(RowGet(row, "rooms", CellNaN)) THEN None
               ELSE Some(ToInt(RowGet(row, "rooms", CellFloat(0)))),
     location |-> [type |-> "Point",
                   coordinates |-> <<ToFloat(RowGet(row, "latitude", CellNaN)),
                                     ToFloat(RowGet(row, "longitude", CellNaN))>>,
                   address |-> "",
                   region |-> "Espoo"],
     source |-> IF is_rental THEN "rental_data" ELSE "sales_data",
     is_for_sale |-> ~is_rental,
     created_at |-> clock,
     updated_at |-> clock]

property_data(row, is_rental, id, clock) ==
    [id |-> id,
     price |-> ToFloat(RowGet(row, "price", CellFloat(0))),
     rooms |-> IF isna(RowGet(row, "rooms", CellNaN)) THEN None
               ELSE Some(ToInt(RowGet(row, "rooms", CellFloat(0)))),
     location |-> [type |-> "Point",
                   coordinates |-> <<ToFloat(RowGet(row, "longitude", CellNaN)),
                                     ToFloat(RowGet(row, "latitude", CellNaN))>>,
                   address |-> "",
                   region |-> "Espoo"],
     source |-> IF is_rental THEN "rental_data" ELSE "sales_data",
     is_for_sale |-> ~is_rental,
     created_at |-> clock,
     updated_at |-> clock]

\* The loop over df.iterrows(): the records of the rows before row i are in
\* acc; an exception in any row abandons the whole list.
RECURSIVE ParseRows(_, _, _, _, _, _)
ParseRows(df, i, is_rental, id, clock, acc) ==
    IF i > Len(df) THEN [ok |-> TRUE, status |-> 200, properties |-> acc]
    ELSE IF SkipsRow(df[i]) THEN ParseRows(df, i + 1, is_rental, id, clock, acc)
    ELSE IF RowRaises(df[i]) THEN [ok |-> FALSE, status |-> 400, properties |-> <<>>]
    ELSE ParseRows(df, i + 1, is_rental, id + 1, clock,
                   Append(acc, property_data(df[i], is_rental, id, clock)))

\* Fault injection: a content that was read before is found consumed.
parse_csv_to_properties_consumed(csv, is_rental, id, clock) ==
    IF ~csv.ok THEN [ok |-> FALSE, status |-> 400, properties |-> <<>>]
    ELSE IF id > 0 THEN [ok |-> TRUE, status |-> 200, properties |-> <<>>]
    ELSE ParseRows(read_csv(csv), 1, is_rental, id, clock, <<>>)

\* parse_csv_to_properties(csv_content, is_rental): every exception, the one
\* of pd.read_csv included, becomes HTTPException(400).
parse_csv_to_properties(csv, is_rental, id, clock) ==
    IF ~csv.ok THEN [ok |-> FALSE, status |-> 400, properties |-> <<>>]
    ELSE ParseRows(read_csv(csv), 1, is_rental, id, clock, <<>>)

\* ------------------------------------------------------------------ state
Importers == {1, 2}

VARIABLES
    store,       \* db.properties: the documents, in insertion order
    nextId,      \* uuid4: the next unused id
    clock,       \* datetime.utcnow()
    salesFile,   \* /app/sales_data.csv
    rentalFile,  \* /app/rental_data.csv
    pc,          \* import_default_data request i: the await it is at
    loc,         \* import_default_data request i: its local variables
    clean,       \* history: no other writer since request i's delete_many
    resp,        \* the last response sent
    csvIn,       \* the CSV document under test (normalizer specification)
    seen,        \* history: what reads served during an import observed
    roi,         \* get_roi_analysis request: the await it is at, its locals
    osm          \* the geodata service's answer to the next query

vars == <<store, nextId, clock, salesFile, rentalFile, pc, loc, clean, resp, csvIn,
          seen, roi, osm>>

NoResp == [op |-> "none", status |-> 0, body |-> <<>>]
Resp(op, status, body) == [op |-> op, status |-> status, body |-> body]

\* ------------------------------------------------------------- collection
\* Fault injection: the documents are lost.
insert_many_lost(coll, docs) == coll

insert_many(coll, docs) == coll \o docs

\* Fault injection: nothing is deleted.
delete_many_noop(coll) == coll

delete_many(coll) == <<>>

\* delete_one({"id": id}): the first document with that id goes.
RECURSIVE delete_one(_, _)
delete_one(coll, id) ==
    IF coll = <<>> THEN <<>>
    ELSE IF Head(coll).id = id THEN Tail(coll)
    ELSE <<Head(coll)>> \o delete_one(Tail(coll), id)

count_documents(coll, filter) ==
    Len(SelectSeq(coll, LAMBDA d : filter = "all" \/ d.is_for_sale = (filter = "sale")))

\* A write by anyone but request i ends i's undisturbed run.
Disturb(i) == [j \in Importers |-> clean[j] /\ j = i]

\* ----------------------------------------------------------------- inputs
\* CSV documents of at most MaxRows rows over a set of rows with one header.
RECURSIVE CsvsUpTo(_, _)
CsvsUpTo(rows, n) ==
    IF n = 0 THEN {<<>>}
    ELSE CsvsUpTo(rows, n - 1) \cup
         {Append(c, r) : c \in {d \in CsvsUpTo(rows, n - 1) : Len(d) = n - 1}, r \in rows}

\* Contents of /app/sales_data.csv and /app/rental_data.csv, and of uploads.
\* One accepted row and one skipped row; no accepted row; no table at all.
GoodRow == [latitude |-> RawNum(60), longitude |-> RawNum(24), price |-> RawNum(2)]
NoLatRow == [latitude |-> RawEmpty, longitude |-> RawNum(24), price |-> RawNum(2)]

BadLatRow == [latitude |-> RawText(0), longitude |-> RawNum(24), price |-> RawNum(2)]

FileInputs == {Csv(<<GoodRow, NoLatRow>>), Csv(<<NoLatRow>>), Unparseable}

UploadInputs == FileInputs \cup {Csv(<<GoodRow, BadLatRow>>), Csv(<<>>)}

\* Request bodies of POST /properties (PropertyCreate): location is any dict.
PointA == <<Num(24), Num(60)>>
Locations ==
    {[type |-> "Point", coordinates |-> PointA, region |-> "Espoo"],
     [type |-> "Point"]}

CreateInputs == [price : {Num(1)}, is_for_sale : BOOLEAN, location : Locations]

Ids == 0 .. MaxId - 1

\* ---------------------------------------------------------------- upload_csv
\* The handler's except clause catches the HTTPException(400) of the parser
\* and its own "No valid properties" HTTPException(400): both leave as 500.
upload_csv_status(r) ==
    IF r.ok /\ r.properties # <<>> THEN 200 ELSE 500

upload_csv(csv) ==
    LET r == parse_csv_to_properties(csv, FALSE, nextId, clock)
        n == Len(r.properties)
    IN  /\ nextId + n <= MaxId
        /\ IF r.ok /\ r.properties # <<>>
           THEN /\ store' = insert_many(store, r.properties)
                /\ nextId' = nextId + n
                /\ clean' = [j \in Importers |-> FALSE]
           ELSE UNCHANGED <<store, nextId, clean>>
        /\ resp' = Resp("upload_csv", upload_csv_status(r), <<n>>)
        /\ UNCHANGED <<clock, salesFile, rentalFile, pc, loc, csvIn, seen, roi, osm>>

UploadCsv == \E csv \in UploadInputs : upload_csv(csv)

\* ----------------------------------------------------------- create_property
\* Property(**property_data.dict()): id and timestamps by default factories.
\* Fault injection: every record is created under the id 0.
Property_one_id(data, id, now) ==
    [id |-> 0,
     price |-> data.price,
     rooms |-> None,
     location |-> data.location,
     source |-> "manual",
     is_for_sale |-> data.is_for_sale,
     created_at |-> now,
     updated_at |-> now]

Property(data, id, now) ==
    [id |-> id,
     price |-> data.price,
     rooms |-> None,
     location |-> data.location,
     source |-> "manual",
     is_for_sale |-> data.is_for_sale,
     created_at |-> now,
     updated_at |-> now]

create_property(data) ==
    /\ nextId + 1 <= MaxId
    /\ store' = insert_many(store, <<Property(data, nextId, clock)>>)
    /\ nextId' = nextId + 1
    /\ clean' = [j \in Importers |-> FALSE]
    /\ resp' = Resp("create_property", 200, <<nextId>>)
    /\ UNCHANGED <<clock, salesFile, rentalFile, pc, loc, csvIn, seen, roi, osm>>

CreateProperty == \E data \in CreateInputs : create_property(data)

\* ----------------------------------------------------------- delete_property
delete_property(id) ==
    LET deleted_count == Len(store) - Len(delete_one(store, id))
    IN  /\ store' = delete_one(store, id)
        /\ clean' = IF deleted_count = 0 THEN clean ELSE [j \in Importers |-> FALSE]
        /\ resp' = Resp("delete_property", IF deleted_count = 0 THEN 404 ELSE 200, <<>>)
        /\ UNCHANGED <<nextId, clock, salesFile, rentalFile, pc, loc, csvIn, seen, roi, osm>>

DeleteProperty == \E id \in Ids : delete_property(id)

\* -------------------------------------------------------------- get_property
\* Fault injection: the filter is ignored.
find_one_any(coll, id) == coll

find_one(coll, id) == SelectSeq(coll, LAMBDA d : d.id = id)

get_property(id) ==
    /\ resp' = IF find_one(store, id) # <<>>
               THEN Resp("get_property", 200, <<Head(find_one(store, id))>>)
               ELSE Resp("get_property", 404, <<>>)
    /\ UNCHANGED <<store, nextId, clock, salesFile, rentalFile, pc, loc, clean, csvIn, seen, roi, osm>>

GetProperty == \E id \in Ids : get_property(id)

\* ------------------------------------------------------------ get_properties
\* Only the is_for_sale filter is modelled ("all": no filter).
find(coll, filter) ==
    SelectSeq(coll, LAMBDA d : filter = "all" \/ d.is_for_sale = (filter = "sale"))

\* What a read of the whole collection shows of an import in flight: nothing,
\* or records of the sales file alone.
Observation(body) ==
    {k \in {"empty"} : body = <<>> /\ \E i \in Importers : pc[i] = "sales"}
    \cup {k \in {"partial"} :
            /\ body # <<>>
            /\ \A j \in DOMAIN body : body[j].source = "sales_data"
            /\ \E i \in Importers : pc[i] = "rentals"}

get_properties(filter) ==
    /\ resp' = Resp(IF filter = "all" THEN "get_properties"
                    ELSE IF filter = "sale" THEN "get_properties?is_for_sale=true"
                    ELSE "get_properties?is_for_sale=false",
                    200, find(store, filter))
    /\ seen' = IF filter = "all" THEN seen \cup Observation(find(store, filter)) ELSE seen
    /\ UNCHANGED <<store, nextId, clock, salesFile, rentalFile, pc, loc, clean, csvIn, roi, osm>>

GetProperties == \E filter \in {"all", "sale", "rent"} : get_properties(filter)

\* ---------------------------------------------------------- get_region_stats
\* An average is null (no value to average), NaN, or the fraction num/den.
AvgNull == [k |-> "null", num |-> 0, den |-> 1]
AvgNaN == [k |-> "nan", num |-> 0, den |-> 1]
Frac(num, den) == [k |-> "num", num |-> num, den |-> den]

\* "$location.region": a missing field groups under null.
RegionKey(doc) ==
    IF "region" \in DOMAIN doc.location
    THEN [null |-> FALSE, s |-> doc.location.region]
    ELSE [null |-> TRUE, s |-> ""]

\* $avg: sum and number of the values that are not null.
AvgAcc == [nan |-> FALSE, sum |-> 0, n |-> 0]
AvgStep(acc, price) ==
    [nan |-> acc.nan \/ price.nan,
     sum |-> IF price.nan THEN acc.sum ELSE acc.sum + price.v,
     n |-> acc.n + 1]
AvgResult(acc) ==
    IF acc.n = 0 THEN AvgNull
    ELSE IF acc.nan THEN AvgNaN
    ELSE Frac(acc.sum, acc.n)

NewGroup(key) ==
    [_id |-> key, sale |-> AvgAcc, rent |-> AvgAcc,
     property_count |-> 0, sale_count |-> 0, rent_count |-> 0]

\* The accumulators of the $group stage, fed one document.
avg_sale_price_acc(g, doc) ==
    IF doc.is_for_sale = TRUE THEN AvgStep(g.sale, doc.price) ELSE g.sale

\* Fault injection: the rent average takes the sale listings.
avg_rent_price_acc_sale(g, doc) ==
    IF doc.is_for_sale = TRUE THEN AvgStep(g.rent, doc.price) ELSE g.rent

avg_rent_price_acc(g, doc) ==
    IF doc.is_for_sale = FALSE THEN AvgStep(g.rent, doc.price) ELSE g.rent

\* Fault injection: only sale listings are counted.
property_count_acc_sale(g, doc) ==
    g.property_count + (IF doc.is_for_sale = TRUE THEN 1 ELSE 0)

property_count_acc(g, doc) == g.property_count + 1

sale_count_acc(g, doc) == g.sale_count + (IF doc.is_for_sale = TRUE THEN 1 ELSE 0)

rent_count_acc(g, doc) == g.rent_count + (IF doc.is_for_sale = FALSE THEN 1 ELSE 0)

Accumulate(g, doc) ==
    [_id |-> g._id,
     sale |-> avg_sale_price_acc(g, doc),
     rent |-> avg_rent_price_acc(g, doc),
     property_count |-> property_count_acc(g, doc),
     sale_count |-> sale_count_acc(g, doc),
     rent_count |-> rent_count_acc(g, doc)]

\* db.properties.aggregate(pipeline): one group per key, here in the order of
\* the keys' first documents (the store leaves the order open).
RECURSIVE aggregate(_, _)
aggregate(coll, groups) ==
    IF coll = <<>> THEN groups
    ELSE LET doc == Head(coll)
             key == RegionKey(doc)
             at == {i \in DOMAIN groups : groups[i]._id = key}
         IN  IF at = {}
             THEN aggregate(Tail(coll), Append(groups, Accumulate(NewGroup(key), doc)))
             ELSE aggregate(Tail(coll),
                    [i \in DOMAIN groups |->
                        IF i \in at THEN Accumulate(groups[i], doc) ELSE groups[i]])

\* Python truth of an average: None and 0.0 are false, NaN is true.
Truthy(avg) == avg.k = "nan" \/ (avg.k = "num" /\ avg.num # 0)

\* avg_rent_price > 0 (false for NaN)
Positive(avg) == avg.k = "num" /\ avg.num > 0

\* avg_sale_price / (avg_rent_price * 12)
roi_years(avg_sale_price, avg_rent_price) ==
    IF Truthy(avg_sale_price) /\ Truthy(avg_rent_price) /\ Positive(avg_rent_price)
    THEN IF avg_sale_price.k = "nan" THEN AvgNaN
         ELSE Frac(avg_sale_price.num * avg_rent_price.den,
                   avg_sale_price.den * avg_rent_price.num * 12)
    ELSE AvgNull

region_name(item) == IF item._id.null \/ item._id.s = "" THEN "Unknown" ELSE item._id.s

region_stat(item) ==
    [region_name |-> region_name(item),
     avg_sale_price |-> AvgResult(item.sale),
     avg_rent_price |-> AvgResult(item.rent),
     roi_years |-> roi_years(AvgResult(item.sale), AvgResult(item.rent)),
     property_count |-> item.property_count,
     sale_count |-> item.sale_count,
     rent_count |-> item.rent_count]

region_stats(coll) ==
    LET result == aggregate(coll, <<>>)
    IN  [i \in DOMAIN result |-> region_stat(result[i])]

get_region_stats ==
    /\ resp' = Resp("get_region_stats", 200, region_stats(store))
    /\ UNCHANGED <<store, nextId, clock, salesFile, rentalFile, pc, loc, clean, csvIn, seen, roi, osm>>

\* ------------------------------------------------------ import_default_data
\* One request is a chain of awaits on the store; other requests run between
\* them.  pc: idle -> sales -> rentals -> count -> count_sale -> count_rental
\* -> done.  Any exception ends the request with status 500.
\* The locals that are read again: count and sale_count.
NoLocals == [count |-> 0, sale_count |-> 0]

\* await db.properties.delete_many({})
ImportDelete(i) ==
    /\ pc[i] = "idle"
    /\ store' = delete_many(store)
    /\ pc' = [pc EXCEPT ![i] = "sales"]
    /\ clean' = [j \in Importers |-> j = i]
    /\ UNCHANGED <<nextId, clock, salesFile, rentalFile, loc, resp, csvIn, seen, roi, osm>>

\* Parse one of the two files and insert_many its records, if there are any.
ImportFile(i, file, is_rental, next) ==
    LET r == parse_csv_to_properties(file, is_rental, nextId, clock)
        n == Len(r.properties)
    IN  /\ nextId + n <= MaxId
        /\ IF ~r.ok
           THEN /\ pc' = [pc EXCEPT ![i] = "done"]
                /\ resp' = Resp("import_default_data", 500, <<>>)
                /\ UNCHANGED <<store, nextId, clean>>
           ELSE /\ pc' = [pc EXCEPT ![i] = next]
                /\ store' = IF n > 0 THEN insert_many(store, r.properties) ELSE store
                /\ nextId' = nextId + n
                /\ clean' = IF n > 0 THEN Disturb(i) ELSE clean
                /\ UNCHANGED resp
        /\ UNCHANGED <<clock, salesFile, rentalFile, loc, csvIn, seen, roi, osm>>

ImportSales(i) == pc[i] = "sales" /\ ImportFile(i, salesFile, FALSE, "rentals")

ImportRentals(i) == pc[i] = "rentals" /\ ImportFile(i, rentalFile, TRUE, "count")

\* The three count_documents calls, then the response.
ImportCount(i) ==
    /\ pc[i] = "count"
    /\ loc' = [loc EXCEPT ![i].count = count_documents(store, "all")]
    /\ pc' = [pc EXCEPT ![i] = "count_sale"]
    /\ UNCHANGED <<store, nextId, clock, salesFile, rentalFile, clean, resp, csvIn, seen, roi, osm>>

ImportCountSale(i) ==
    /\ pc[i] = "count_sale"
    /\ loc' = [loc EXCEPT ![i].sale_count = count_documents(store, "sale")]
    /\ pc' = [pc EXCEPT ![i] = "count_rental"]
    /\ UNCHANGED <<store, nextId, clock, salesFile, rentalFile, clean, resp, csvIn, seen, roi, osm>>

ImportCountRental(i) ==
    /\ pc[i] = "count_rental"
    /\ loc' = [loc EXCEPT ![i] = NoLocals]
    /\ pc' = [pc EXCEPT ![i] = "done"]
    /\ resp' = Resp("import_default_data", 200,
                    <<loc[i].count, loc[i].sale_count, count_documents(store, "rent")>>)
    /\ UNCHANGED <<store, nextId, clock, salesFile, rentalFile, clean, csvIn, seen, roi, osm>>

\* --------------------------------------------------------- get_roi_analysis
RoiIdle == [pc |-> "idle", sale_properties |-> <<>>]

\* prop["location"]["coordinates"] and ["location"]["address"]: a KeyError
\* when the dict lacks the key.
HasKey(doc, key) == key \in DOMAIN doc.location

\* The keys of coords_map, in insertion order.
RECURSIVE coords_keys(_)
coords_keys(props) ==
    IF props = <<>> THEN <<>>
    ELSE LET front == SubSeq(props, 1, Len(props) - 1)
             coords == props[Len(props)].location.coordinates
         IN  IF \E i \in DOMAIN front : front[i].location.coordinates = coords
             THEN coords_keys(front)
             ELSE Append(coords_keys(front), coords)

at_coords(props, coords) ==
    SelectSeq(props, LAMBDA p : HasKey(p, "coordinates") /\ p.location.coordinates = coords)

\* sum(p["price"] for p in props): NaN once a price is NaN.
RECURSIVE sum_price(_)
sum_price(props) ==
    IF props = <<>> THEN Num(0)
    ELSE LET rest == sum_price(Tail(props))
         IN  IF rest.nan \/ Head(props).price.nan THEN NaN
             ELSE Num(Head(props).price.v + rest.v)

\* Fault injection: the average is the first price.
avg_price_first(props) ==
    IF Head(props).price.nan THEN AvgNaN ELSE Frac(Head(props).price.v, 1)

avg_price(props) ==
    IF sum_price(props).nan THEN AvgNaN ELSE Frac(sum_price(props).v, Len(props))

\* if data["sales"] and data["rentals"]
is_paired(data) == data.sales # <<>> /\ data.rentals # <<>>

\* if annual_rent > 0, with annual_rent = avg_monthly_rent * 12
annual_rent_positive(avg_monthly_rent) ==
    avg_monthly_rent.k = "num" /\ avg_monthly_rent.num > 0

\* Fault injection: every rental record joins every group.
coords_group_all_rentals(sale_properties, rent_properties, coords) ==
    [sales |-> at_coords(sale_properties, coords),
     rentals |-> rent_properties]

coords_group(sale_properties, rent_properties, coords) ==
    [sales |-> at_coords(sale_properties, coords),
     rentals |-> at_coords(rent_properties, coords)]

emits(data) ==
    /\ is_paired(data)
    /\ annual_rent_positive(avg_price(data.rentals))

roi_entry(coords, data) ==
    LET avg_sale_price == avg_price(data.sales)
        avg_monthly_rent == avg_price(data.rentals)
    IN  [coordinates |-> coords,
         avg_sale_price |-> avg_sale_price,
         avg_monthly_rent |-> avg_monthly_rent,
         roi_years |-> IF avg_sale_price.k = "nan" THEN AvgNaN
                       ELSE Frac(avg_sale_price.num * avg_monthly_rent.den,
                                 avg_sale_price.den * avg_monthly_rent.num * 12),
         address |-> data.sales[1].location.address]

\* Any exception of the body leaves as HTTPException(500).
roi_raises(sale_properties, rent_properties) ==
    LET props == sale_properties \o rent_properties
        keyed == SelectSeq(props, LAMBDA p : HasKey(p, "coordinates"))
    IN  \/ \E i \in DOMAIN props : ~HasKey(props[i], "coordinates")
        \/ \E i \in DOMAIN keyed :
            LET data == coords_group(sale_properties, rent_properties,
                                     keyed[i].location.coordinates)
            IN  emits(data) /\ ~HasKey(data.sales[1], "address")

RECURSIVE roi_rows(_, _, _)
roi_rows(keys, sale_properties, rent_properties) ==
    IF keys = <<>> THEN <<>>
    ELSE LET data == coords_group(sale_properties, rent_properties, Head(keys))
             rest == roi_rows(Tail(keys), sale_properties, rent_properties)
         IN  IF emits(data) THEN <<roi_entry(Head(keys), data)>> \o rest ELSE rest

roi_data(sale_properties, rent_properties) ==
    IF roi_raises(sale_properties, rent_properties)
    THEN Resp("get_roi_analysis", 500, <<>>)
    ELSE Resp("get_roi_analysis", 200,
              roi_rows(coords_keys(sale_properties \o rent_properties),
                       sale_properties, rent_properties))

\* First await: the cursor over the sale records.
get_roi_analysis_sales ==
    /\ roi.pc = "idle"
    /\ roi' = [pc |-> "rent", sale_properties |-> find(store, "sale")]
    /\ UNCHANGED <<store, nextId, clock, salesFile, rentalFile, pc, loc, clean, resp,
                   csvIn, seen, osm>>

\* Fault injection: the analysis consumes the records it has read.
get_roi_analysis_consuming ==
    /\ roi.pc = "rent"
    /\ resp' = roi_data(roi.sale_properties, find(store, "rent"))
    /\ roi' = RoiIdle
    /\ store' = delete_many(store)
    /\ UNCHANGED <<nextId, clock, salesFile, rentalFile, pc, loc, clean,
                   csvIn, seen, osm>>

\* Second await: the cursor over the rental records; then the grouping.
get_roi_analysis ==
    /\ roi.pc = "rent"
    /\ resp' = roi_data(roi.sale_properties, find(store, "rent"))
    /\ roi' = RoiIdle
    /\ UNCHANGED <<store, nextId, clock, salesFile, rentalFile, pc, loc, clean,
                   csvIn, seen, osm>>

\* -------------------------------------------------- fetch_buildings_from_osm
\* The service's answer: how the exchange ends, and for a well-formed payload
\* its node elements and one way element (tagged as a building or not) with
\* its list of node ids.
\*   "ok"          status 200, a JSON payload of well-formed elements
\*   "status"      a status other than 200
\*   "transport"   session.post raises
\*   "not_json"    response.json() raises
\*   "bad_element" an element lacks a key the loops read
Outcomes == {"ok", "status", "transport", "not_json", "bad_element"}

OsmDown == [outcome |-> "transport", nodes |-> {}, tagged |-> FALSE, refs |-> <<>>]

NodeIds == {1, 2, 3, 4}
WayId == 7

\* Node n lies at longitude n % 3: nodes 1 and 4 are distinct nodes at one place.
NodeElement(n) == [id |-> n, lon |-> Num(n % 3), lat |-> Num(60)]

\* coords: [lon, lat] of every referenced node that the payload holds.
RECURSIVE way_coords(_, _)
way_coords(refs, nodes) ==
    IF refs = <<>> THEN <<>>
    ELSE LET found == {node \in nodes : node.id = Head(refs)}
             rest == way_coords(Tail(refs), nodes)
         IN  IF found = {} THEN rest
             ELSE LET node == CHOOSE node \in found : TRUE
                  IN  <<<<node.lon, node.lat>>>> \o rest

\* Fault injection: the ring is left as the way lists it.
close_ring_open(coords) == coords

\* if coords and coords[0] != coords[-1]: coords.append(coords[0])
close_ring(coords) ==
    IF coords # <<>> /\ coords[1] # coords[Len(coords)]
    THEN Append(coords, coords[1])
    ELSE coords

\* Fault injection: a ring of 3 points is kept.
is_polygon_3(coords) == Len(coords) >= 3

\* if len(coords) >= 4
is_polygon(coords) == Len(coords) >= 4

Building(id, coords) ==
    [id |-> id,
     geometry |-> [type |-> "Polygon", coordinates |-> <<coords>>],
     properties |-> [building_type |-> "yes"]]

\* The second loop, for the way of the payload.
buildings_of(o) ==
    LET coords == close_ring(way_coords(o.refs, o.nodes))
    IN  IF o.tagged /\ is_polygon(coords) THEN <<Building(WayId, coords)>> ELSE <<>>

\* The body of the try block: what it returns, or that it raised.
osm_body(o) ==
    IF o.outcome = "status" THEN [raised |-> FALSE, buildings |-> <<>>]
    ELSE IF o.outcome = "ok" THEN [raised |-> FALSE, buildings |-> buildings_of(o)]
    ELSE [raised |-> TRUE, buildings |-> <<>>]

\* Fault injection: the exception is not caught.
fetch_buildings_from_osm_raising(o) == osm_body(o)

\* except Exception: return []
fetch_buildings_from_osm(o) ==
    IF osm_body(o).raised THEN [raised |-> FALSE, buildings |-> <<>>] ELSE osm_body(o)

\* -------------------------------------------------------------- get_buildings
get_buildings ==
    /\ resp' = IF fetch_buildings_from_osm(osm).raised
               THEN Resp("get_buildings", 500, <<>>)
               ELSE Resp("get_buildings", 200, fetch_buildings_from_osm(osm).buildings)
    /\ UNCHANGED <<store, nextId, clock, salesFile, rentalFile, pc, loc, clean,
                   csvIn, seen, roi, osm>>

\* ------------------------------------------------------------------- clock
Tick ==
    /\ clock < MaxClock
    /\ clock' = clock + 1
    /\ UNCHANGED <<store, nextId, salesFile, rentalFile, pc, loc, clean, resp, csvIn, seen, roi, osm>>

\* ----------------------------------------------------- store specification
Init ==
    /\ store = <<>>
    /\ nextId = 0
    /\ clock = 0
    /\ salesFile \in FileInputs
    /\ rentalFile \in FileInputs
    /\ pc = [i \in Importers |-> "idle"]
    /\ loc = [i \in Importers |-> NoLocals]
    /\ clean = [i \in Importers |-> FALSE]
    /\ resp = NoResp
    /\ csvIn = Unparseable
    /\ seen = {}
    /\ roi = RoiIdle
    /\ osm = OsmDown

Next ==
    \/ UploadCsv
    \/ CreateProperty
    \/ DeleteProperty
    \/ ImportDelete(1)
    \/ ImportSales(1)
    \/ ImportRentals(1)
    \/ ImportCount(1)
    \/ ImportCountSale(1)
    \/ ImportCountRental(1)
    \/ get_region_stats

Spec == Init /\ [][Next]_vars

\* ------------------------------------------------ normalizer specification
\* The document under test is built row by row, then given to
\* parse_csv_to_properties in either mode and to upload_csv.
Digits(cell) == cell.k = "digits"

\* listing_type texts: 1 is "Sale", 2 is "rent"; Lower is str.lower of them.
Lower(n) == <<"sale", "rent">>[n]

VariantCRows ==
    [latitude : {RawEmpty, RawNum(60), RawText(0)},
     longitude : {RawEmpty, RawNum(24), RawText(0)},
     price : {RawEmpty, RawNum(100), RawText(0)},
     rooms : {RawNum(2), RawText(0)},
     listing_type : {RawText(1), RawText(2)}]

\* Rows whose defects are in the coordinates, or in one other cell.
TestRows ==
    {r \in VariantCRows :
        \/ Digits(r.price) /\ Digits(r.rooms) /\ r.listing_type.n = 1
        \/ Digits(r.latitude) /\ Digits(r.longitude) /\ Digits(r.rooms)
           /\ r.listing_type.n = 1
        \/ Digits(r.latitude) /\ Digits(r.longitude) /\ Digits(r.price)
        \/ r.latitude = RawEmpty /\ Digits(r.longitude) /\ r.price.k = "text"
           /\ Digits(r.rooms) /\ r.listing_type.n = 1}

\* A row under the lat/lng header (variant B).
VariantBRow ==
    [lat |-> RawNum(60), lng |-> RawNum(24), price |-> RawNum(100),
     listing_type |-> RawText(1)]

AddRow ==
    /\ csvIn.ok
    /\ resp = NoResp
    /\ Len(csvIn.rows) < MaxRows
    /\ \E r \in TestRows \cup {VariantBRow} :
        /\ \A i \in DOMAIN csvIn.rows : DOMAIN csvIn.rows[i] = DOMAIN r
        /\ csvIn' = Csv(Append(csvIn.rows, r))
    /\ UNCHANGED <<store, nextId, clock, salesFile, rentalFile, pc, loc, clean, resp, seen, roi, osm>>

Parse ==
    \E is_rental \in BOOLEAN :
        LET r == parse_csv_to_properties(csvIn, is_rental, nextId, clock)
        IN  /\ nextId + Len(r.properties) <= 2 * MaxRows
            /\ nextId' = nextId + Len(r.properties)
            /\ resp' = Resp(IF is_rental THEN "parse_rental" ELSE "parse_sales",
                            r.status, r.properties)
            /\ UNCHANGED <<store, clock, salesFile, rentalFile, pc, loc, clean, csvIn, seen, roi, osm>>

UploadTested ==
    /\ store = <<>>
    /\ upload_csv(csvIn)

InitParse ==
    /\ store = <<>>
    /\ nextId = 0
    /\ clock = 0
    /\ salesFile = Unparseable
    /\ rentalFile = Unparseable
    /\ pc = [i \in Importers |-> "idle"]
    /\ loc = [i \in Importers |-> NoLocals]
    /\ clean = [i \in Importers |-> FALSE]
    /\ resp = NoResp
    /\ csvIn \in {Unparseable, Csv(<<>>)}
    /\ seen = {}
    /\ roi = RoiIdle
    /\ osm = OsmDown

NextParse ==
    \/ AddRow
    \/ Parse
    \/ UploadTested
    \/ Tick

SpecParse == InitParse /\ [][NextParse]_vars

\* ---------------------------------------------------- import specification
\* Two import_default_data requests and readers, over a store that already
\* holds a record made by create_property; nobody else writes.
InitImport ==
    /\ \E data \in CreateInputs : store = <<Property(data, 0, 0)>>
    /\ nextId = 1
    /\ clock = 0
    /\ salesFile \in FileInputs
    /\ rentalFile \in FileInputs
    /\ pc = [i \in Importers |-> "idle"]
    /\ loc = [i \in Importers |-> NoLocals]
    /\ clean = [i \in Importers |-> FALSE]
    /\ resp = NoResp
    /\ csvIn = Unparseable
    /\ seen = {}
    /\ roi = RoiIdle
    /\ osm = OsmDown

NextImport ==
    \/ \E i \in Importers : ImportDelete(i)
    \/ \E i \in Importers : ImportSales(i)
    \/ \E i \in Importers : ImportRentals(i)
    \/ \E i \in Importers : ImportCount(i)
    \/ \E i \in Importers : ImportCountSale(i)
    \/ \E i \in Importers : ImportCountRental(i)
    \/ GetProperties
    \/ get_region_stats

SpecImport == InitImport /\ [][NextImport]_vars

\* ------------------------------------------------ statistics specification
\* Stores made by create_property and upload_csv, read by get_region_stats.
StatsLocations ==
    {[type |-> "Point", coordinates |-> PointA, region |-> "Espoo"],
     [type |-> "Point", coordinates |-> PointA, region |-> ""],
     [type |-> "Point", coordinates |-> PointA]}

StatsInputs ==
    [price : {Num(0), Num(1), Num(3)}, is_for_sale : BOOLEAN, location : StatsLocations]

\* A row without a price: the record's price is NaN.
NoPriceRow == [latitude |-> RawNum(60), longitude |-> RawNum(24), price |-> RawEmpty]

CreateStats == \E data \in StatsInputs : create_property(data)

UploadStats == \E csv \in {Csv(<<NoPriceRow>>), Csv(<<GoodRow, NoLatRow>>)} : upload_csv(csv)

InitStats ==
    /\ store = <<>>
    /\ nextId = 0
    /\ clock = 0
    /\ salesFile = Unparseable
    /\ rentalFile = Unparseable
    /\ pc = [i \in Importers |-> "idle"]
    /\ loc = [i \in Importers |-> NoLocals]
    /\ clean = [i \in Importers |-> FALSE]
    /\ resp = NoResp
    /\ csvIn = Unparseable
    /\ seen = {}
    /\ roi = RoiIdle
    /\ osm = OsmDown

NextStats ==
    \/ CreateStats
    \/ UploadStats
    \/ get_region_stats

SpecStats == InitStats /\ [][NextStats]_vars

\* ------------------------------------------------------ reads specification
\* The three read-only requests, served while records are created: the ROI
\* analysis reads the store twice, and a create may run between.
PointB == <<Num(25), Num(60)>>
LocA == [type |-> "Point", coordinates |-> PointA, address |-> "a"]
LocB == [type |-> "Point", coordinates |-> PointB, address |-> "b"]

RoiInputs ==
    {[price |-> Num(2), is_for_sale |-> TRUE, location |-> LocA],
     [price |-> Num(4), is_for_sale |-> TRUE, location |-> LocA],
     [price |-> Num(1), is_for_sale |-> FALSE, location |-> LocA],
     [price |-> Num(0 - 1), is_for_sale |-> FALSE, location |-> LocA],
     [price |-> Num(2), is_for_sale |-> TRUE, location |-> LocB],
     [price |-> Num(2), is_for_sale |-> TRUE,
      location |-> [type |-> "Point", coordinates |-> PointA]],
     [price |-> Num(1), is_for_sale |-> FALSE, location |-> [type |-> "Point"]]}

OsmSamples ==
    {OsmDown,
     [outcome |-> "ok", nodes |-> {NodeElement(1), NodeElement(2), NodeElement(3)},
      tagged |-> TRUE, refs |-> <<1, 2, 3>>]}

CreateRoi == \E data \in RoiInputs : create_property(data)

InitRoi ==
    /\ store = <<>>
    /\ nextId = 0
    /\ clock = 0
    /\ salesFile = Unparseable
    /\ rentalFile = Unparseable
    /\ pc = [i \in Importers |-> "idle"]
    /\ loc = [i \in Importers |-> NoLocals]
    /\ clean = [i \in Importers |-> FALSE]
    /\ resp = NoResp
    /\ csvIn = Unparseable
    /\ seen = {}
    /\ roi = RoiIdle
    /\ osm \in OsmSamples

NextRoi ==
    \/ CreateRoi
    \/ get_roi_analysis_sales
    \/ get_roi_analysis
    \/ get_region_stats
    \/ get_buildings

SpecRoi == InitRoi /\ [][NextRoi]_vars

\* ----------------------------------------------------- record specification
\* Single records: created, read by id and deleted by id.
InitCrud ==
    /\ store = <<>>
    /\ nextId = 0
    /\ clock = 0
    /\ salesFile = Unparseable
    /\ rentalFile = Unparseable
    /\ pc = [i \in Importers |-> "idle"]
    /\ loc = [i \in Importers |-> NoLocals]
    /\ clean = [i \in Importers |-> FALSE]
    /\ resp = NoResp
    /\ csvIn = Unparseable
    /\ seen = {}
    /\ roi = RoiIdle
    /\ osm = OsmDown

NextCrud ==
    \/ CreateProperty
    \/ GetProperty
    \/ DeleteProperty

SpecCrud == InitCrud /\ [][NextCrud]_vars

\* ----------------------------------------------------- writes specification
\* Every operation that writes the store, over files that both hold an
\* accepted row.
InitWrites ==
    /\ store = <<>>
    /\ nextId = 0
    /\ clock = 0
    /\ salesFile = Csv(<<GoodRow, NoLatRow>>)
    /\ rentalFile = Csv(<<GoodRow, NoLatRow>>)
    /\ pc = [i \in Importers |-> "idle"]
    /\ loc = [i \in Importers |-> NoLocals]
    /\ clean = [i \in Importers |-> FALSE]
    /\ resp = NoResp
    /\ csvIn = Unparseable
    /\ seen = {}
    /\ roi = RoiIdle
    /\ osm = OsmDown

NextWrites ==
    \/ UploadCsv
    \/ CreateProperty
    \/ DeleteProperty
    \/ ImportDelete(1)
    \/ ImportSales(1)
    \/ ImportRentals(1)
    \/ ImportCount(1)
    \/ ImportCountSale(1)
    \/ ImportCountRental(1)

SpecWrites == InitWrites /\ [][NextWrites]_vars

\* -------------------------------------------------- buildings specification
\* The service's answer is built element by element, then fetched.
AddNode ==
    \E n \in NodeIds :
        /\ resp = NoResp
        /\ NodeElement(n) \notin osm.nodes
        /\ osm' = [osm EXCEPT !.nodes = @ \cup {NodeElement(n)}]
        /\ UNCHANGED <<store, nextId, clock, salesFile, rentalFile, pc, loc, clean,
                       resp, csvIn, seen, roi>>

AddRef ==
    \E n \in NodeIds :
        /\ resp = NoResp
        /\ Len(osm.refs) < MaxRefs
        /\ osm' = [osm EXCEPT !.refs = Append(@, n)]
        /\ UNCHANGED <<store, nextId, clock, salesFile, rentalFile, pc, loc, clean,
                       resp, csvIn, seen, roi>>

TagBuilding ==
    /\ resp = NoResp
    /\ ~osm.tagged
    /\ osm' = [osm EXCEPT !.tagged = TRUE]
    /\ UNCHANGED <<store, nextId, clock, salesFile, rentalFile, pc, loc, clean,
                   resp, csvIn, seen, roi>>

InitOsm ==
    /\ store = <<>>
    /\ nextId = 0
    /\ clock = 0
    /\ salesFile = Unparseable
    /\ rentalFile = Unparseable
    /\ pc = [i \in Importers |-> "idle"]
    /\ loc = [i \in Importers |-> NoLocals]
    /\ clean = [i \in Importers |-> FALSE]
    /\ resp = NoResp
    /\ csvIn = Unparseable
    /\ seen = {}
    /\ roi = RoiIdle
    /\ osm \in [outcome : Outcomes, nodes : {{}}, tagged : {FALSE}, refs : {<<>>}]

NextOsm ==
    \/ AddNode
    \/ AddRef
    \/ TagBuilding
    \/ get_buildings

SpecOsm == InitOsm /\ [][NextOsm]_vars

\* ================================================================= claims
ParseOps == {"parse_sales", "parse_rental"}

\* A row of the file's text that has a value in both coordinate columns.
HasCoords(r) ==
    /\ "latitude" \in DOMAIN r /\ r.latitude.k # "empty"
    /\ "longitude" \in DOMAIN r /\ r.longitude.k # "empty"

\* A row of the file's text that lacks a numeric latitude or longitude.
LacksNumeric(r) ==
    ~ /\ "latitude" \in DOMAIN r /\ Digits(r.latitude)
      /\ "longitude" \in DOMAIN r /\ Digits(r.longitude)

NumericOrAbsent(r, col) == col \in DOMAIN r => Digits(r[col])

\* A row with no defect in any cell the normalizer converts.
Sound(r) ==
    /\ ~LacksNumeric(r)
    /\ NumericOrAbsent(r, "price")
    /\ NumericOrAbsent(r, "rooms")

\* C4: a parseable CSV of N rows, K of them lacking a numeric latitude or
\* longitude, adds exactly N-K records to the store on upload_csv.  Stated for
\* documents whose price and rooms cells are all numeric, so that only the
\* coordinate cells are at play.
C4_UploadAddsNMinusK ==
    (/\ resp.op = "upload_csv"
     /\ csvIn.ok
     /\ \A i \in DOMAIN csvIn.rows :
            NumericOrAbsent(csvIn.rows[i], "price") /\ NumericOrAbsent(csvIn.rows[i], "rooms"))
    => Len(store) = Len(csvIn.rows) - Len(SelectSeq(csvIn.rows, LacksNumeric))

\* C5: a defect confined to one row never fails the batch:
\* parse_csv_to_properties of a parseable document succeeds and returns at
\* least the records of the rows that have no defect.
C5_RowDefectNotFatal ==
    (resp.op \in ParseOps /\ csvIn.ok)
    => /\ resp.status = 200
       /\ Len(resp.body) >= Len(SelectSeq(csvIn.rows, Sound))

\* C6: a rejected upload_csv ends with status 400 and leaves the store as it
\* was (empty, in this specification).
C6_RejectedUploadIs400 ==
    (resp.op = "upload_csv" /\ resp.status # 200)
    => (resp.status = 400 /\ store = <<>>)

\* C7: without a mode (upload_csv) is_for_sale is true exactly when the row's
\* listing_type is, ignoring case, one of "sale", "buy", "for sale", "sell";
\* with a mode it is true for sales and false for rental.
SaleWords == {"sale", "buy", "for sale", "sell"}

C7_ListingPolarity ==
    LET rows == SelectSeq(csvIn.rows, HasCoords)
    IN  /\ (resp.op = "upload_csv" /\ resp.status = 200)
           => \A k \in DOMAIN store :
                "listing_type" \in DOMAIN rows[k]
                => store[k].is_for_sale = (Lower(rows[k].listing_type.n) \in SaleWords)
        /\ (resp.op \in ParseOps /\ resp.status = 200)
           => \A k \in DOMAIN resp.body :
                resp.body[k].is_for_sale = (resp.op = "parse_sales")

\* C8: the record of every accepted row has location.coordinates equal to
\* [longitude of the row, latitude of the row], in that order.
C8_CoordinatesLngLat ==
    (resp.op \in ParseOps /\ resp.status = 200)
    => LET rows == SelectSeq(csvIn.rows, HasCoords)
       IN  /\ Len(resp.body) = Len(rows)
           /\ \A k \in DOMAIN resp.body :
                resp.body[k].location.coordinates
                    = <<Num(rows[k].longitude.n), Num(rows[k].latitude.n)>>

\* A parse that accepted a row and skipped another.
C8_Witness ==
    /\ resp.op \in ParseOps
    /\ resp.status = 200
    /\ Len(resp.body) >= 1
    /\ Len(csvIn.rows) > Len(resp.body)

\* C1: after any sequence of upload_csv, import_default_data, create_property
\* and delete_property, every stored record has a location.coordinates pair
\* of two numbers.
C1_StoredCoordinatesNumeric ==
    \A k \in DOMAIN store :
        /\ "coordinates" \in DOMAIN store[k].location
        /\ Len(store[k].location.coordinates) = 2
        /\ \A j \in 1 .. 2 : ~store[k].location.coordinates[j].nan

\* The rows of a file that import_default_data turns into records.
Accepted(file) == Len(SelectSeq(file.rows, HasCoords))

\* C2: when an import_default_data request has made its last insert with no
\* other write to the store since its delete, the store holds exactly the
\* accepted rows of the sales file plus those of the rental file.
C2_ImportCount ==
    \A i \in Importers :
        (pc[i] \in {"count", "count_sale", "count_rental"} /\ clean[i])
        => Len(store) = Accepted(salesFile) + Accepted(rentalFile)

\* An undisturbed import of a sale and a rental record over earlier content.
C2_Witness ==
    /\ pc[1] = "count"
    /\ clean[1]
    /\ Len(store) = 2
    /\ nextId = 3

\* C3: the reset-and-reimport is not atomic.  A read of the whole collection
\* served after a request's delete and before its first insert, with no other
\* writer in between, returns nothing; one served after its sales insert and
\* before its rental insert returns the sales file's records and no other.
C3_ReaderSeesEmptyOrPartial ==
    [][\A i \in Importers :
        (get_properties("all") /\ clean[i])
        => /\ pc[i] = "sales" => resp'.body = <<>>
           /\ pc[i] = "rentals"
              => /\ Len(resp'.body) = Accepted(salesFile)
                 /\ \A k \in DOMAIN resp'.body : resp'.body[k].source = "sales_data"]_vars

\* Over a store that was not empty, with both files holding accepted rows,
\* one read has seen nothing and another the sales records alone.
C3_Witness ==
    /\ seen = {"empty", "partial"}
    /\ Accepted(salesFile) > 0
    /\ Accepted(rentalFile) > 0

\* The records of a region (the location.region value, null when missing).
Members(key) == {k \in DOMAIN store : RegionKey(store[k]) = key}
SaleMembers(key) == {k \in Members(key) : store[k].is_for_sale}
RentMembers(key) == {k \in Members(key) : ~store[k].is_for_sale}

RECURSIVE SumPrices(_)
SumPrices(S) ==
    IF S = {} THEN 0
    ELSE LET k == CHOOSE x \in S : TRUE
         IN  store[k].price.v + SumPrices(S \ {k})

\* The mean price of a set of records: null if there is none.
Mean(S) ==
    IF S = {} THEN AvgNull
    ELSE IF \E k \in S : store[k].price.nan THEN AvgNaN
    ELSE Frac(SumPrices(S), Cardinality(S))

NameOf(key) == IF key.null \/ key.s = "" THEN "Unknown" ELSE key.s

\* C9: for every region group of get_region_stats, avg_sale_price is the mean
\* price of the group's sale records and avg_rent_price that of its rental
\* records, each null when the group has none; a region with sales only has
\* avg_rent_price and roi_years null.
C9_RegionAverages ==
    LET body == region_stats(store)
    IN  /\ Len(body) = Cardinality({RegionKey(store[k]) : k \in DOMAIN store})
        /\ \A key \in {RegionKey(store[k]) : k \in DOMAIN store} :
            \E i \in DOMAIN body :
                /\ body[i].region_name = NameOf(key)
                /\ body[i].avg_sale_price = Mean(SaleMembers(key))
                /\ body[i].avg_rent_price = Mean(RentMembers(key))
                /\ RentMembers(key) = {}
                   => body[i].avg_rent_price = AvgNull /\ body[i].roi_years = AvgNull

\* get_region_stats has answered for a store with a region of two sale
\* records of different prices and no rental, and a region with a rental.
C9_Witness ==
    /\ resp.op = "get_region_stats"
    /\ resp.body = region_stats(store)
    /\ \E i, j \in DOMAIN resp.body :
        /\ resp.body[i].avg_sale_price = Frac(4, 2)
        /\ resp.body[i].avg_rent_price = AvgNull
        /\ resp.body[j].avg_rent_price # AvgNull

\* C10: in every reachable store state each entry of get_region_stats has
\* property_count = sale_count + rent_count, the counts being the numbers of
\* the group's records with is_for_sale true and false.
C10_PropertyCount ==
    LET body == region_stats(store)
    IN  /\ \A i \in DOMAIN body :
            body[i].property_count = body[i].sale_count + body[i].rent_count
        /\ \A key \in {RegionKey(store[k]) : k \in DOMAIN store} :
            \E i \in DOMAIN body :
                /\ body[i].region_name = NameOf(key)
                /\ body[i].sale_count = Cardinality(SaleMembers(key))
                /\ body[i].rent_count = Cardinality(RentMembers(key))
                /\ body[i].property_count = Cardinality(Members(key))

\* get_region_stats has answered for a store holding, in one region, a sale
\* and a rental record.
C10_Witness ==
    /\ resp.op = "get_region_stats"
    /\ resp.body = region_stats(store)
    /\ \E i \in DOMAIN resp.body :
        resp.body[i].sale_count >= 1 /\ resp.body[i].rent_count >= 1

\* C11: for every region group, roi_years is avg_sale_price /
\* (avg_rent_price * 12) when both averages are non-null (an average of 0
\* included) and avg_rent_price > 0, and null in every other case.
C11_RegionRoi ==
    LET body == region_stats(store)
    IN  \A i \in DOMAIN body :
            LET s == body[i].avg_sale_price
                r == body[i].avg_rent_price
            IN  IF s # AvgNull /\ r.k = "num" /\ r.num > 0
                THEN body[i].roi_years =
                        IF s.k = "nan" THEN AvgNaN
                        ELSE Frac(s.num * r.den, s.den * r.num * 12)
                ELSE body[i].roi_years = AvgNull

\* C12: get_region_stats returns one entry per distinct location.region; the
\* entry of the records without a region is named "Unknown", every other
\* entry carries its records' own region, and no two entries share a name.
C12_OneEntryPerRegion ==
    LET body == region_stats(store)
        keys == {RegionKey(store[k]) : k \in DOMAIN store}
    IN  /\ Len(body) = Cardinality(keys)
        /\ \A key \in keys :
            \E i \in DOMAIN body :
                body[i].region_name = (IF key.null THEN "Unknown" ELSE key.s)
        /\ \A i, j \in DOMAIN body :
            body[i].region_name = body[j].region_name => i = j

\* The sale and the rental records stored at a coordinate pair.
SalesAt(coords) ==
    {k \in DOMAIN store : /\ store[k].is_for_sale
                          /\ HasKey(store[k], "coordinates")
                          /\ store[k].location.coordinates = coords}
RentalsAt(coords) ==
    {k \in DOMAIN store : /\ ~store[k].is_for_sale
                          /\ HasKey(store[k], "coordinates")
                          /\ store[k].location.coordinates = coords}
StoredCoords ==
    {store[k].location.coordinates : k \in {j \in DOMAIN store : HasKey(store[j], "coordinates")}}

\* The analysis answers for the store as it is: no sale record was written or
\* deleted between its two reads.
RoiReadsStore == roi.sale_properties = find(store, "sale")

\* C13: every entry that get_roi_analysis returns is for a coordinate pair at
\* which the store holds at least one sale and at least one rental record; a
\* coordinate with records of one polarity only gets no entry.
C13_PairedOnly ==
    [][get_roi_analysis /\ RoiReadsStore
        => \A i \in DOMAIN resp'.body :
            /\ SalesAt(resp'.body[i].coordinates) # {}
            /\ RentalsAt(resp'.body[i].coordinates) # {}]_vars

\* The analysis has returned one entry for a store that also holds a sale
\* record at a coordinate without rentals.
C13_Witness ==
    /\ resp.op = "get_roi_analysis"
    /\ resp.status = 200
    /\ roi = RoiIdle
    /\ Len(resp.body) = 1
    /\ resp.body[1].coordinates = PointA
    /\ SalesAt(PointA) # {} /\ RentalsAt(PointA) # {}
    /\ SalesAt(PointB) # {} /\ RentalsAt(PointB) = {}

NonZero(avg) == avg.k # "num" \/ avg.num # 0
IsPositive(avg) == avg.k = "num" /\ avg.num > 0

\* A successful analysis returns exactly one entry, with the means and their
\* quotient, for every paired coordinate whose mean rent satisfies Kept, and
\* none for a paired coordinate whose mean rent does not.
RoiAnswers(Kept(_)) ==
    get_roi_analysis /\ RoiReadsStore /\ resp'.status = 200
    => \A coords \in StoredCoords :
        LET sale == Mean(SalesAt(coords))
            rent == Mean(RentalsAt(coords))
            entries == {i \in DOMAIN resp'.body : resp'.body[i].coordinates = coords}
        IN  SalesAt(coords) # {} /\ RentalsAt(coords) # {}
            => IF Kept(rent)
               THEN /\ Cardinality(entries) = 1
                    /\ \A i \in entries :
                        /\ resp'.body[i].avg_sale_price = sale
                        /\ resp'.body[i].avg_monthly_rent = rent
                        /\ resp'.body[i].roi_years =
                            IF sale.k = "nan" THEN AvgNaN
                            ELSE Frac(sale.num * rent.den, sale.den * rent.num * 12)
               ELSE entries = {}

Ring(building) == building.geometry.coordinates[1]

\* The way's node list names pairwise distinct nodes, all held by the payload.
DistinctResolved(o) ==
    /\ \A i, j \in DOMAIN o.refs : o.refs[i] = o.refs[j] => i = j
    /\ \A i \in DOMAIN o.refs : NodeElement(o.refs[i]) \in o.nodes

PointOf(n) == <<NodeElement(n).lon, NodeElement(n).lat>>

\* C15: whatever the service answers, every building that
\* fetch_buildings_from_osm returns has a ring of at least 4 points whose
\* first and last points are equal.
C15_ClosedRingOfFour ==
    \A i \in DOMAIN fetch_buildings_from_osm(osm).buildings :
        LET ring == Ring(fetch_buildings_from_osm(osm).buildings[i])
        IN  Len(ring) >= 4 /\ ring[1] = ring[Len(ring)]

\* A building has been returned for a way of four nodes whose ring was open.
C15_Witness ==
    /\ resp.op = "get_buildings"
    /\ Len(resp.body) = 1
    /\ Len(osm.refs) = 4
    /\ DistinctResolved(osm)
    /\ Len(Ring(resp.body[1])) = 5

\* C16: a building-tagged way of 3 distinct nodes with an open ring is
\* returned with the 4-point ring that the forced closure makes; a
\* building-tagged way of 2 distinct nodes, whose closed ring has 3 points,
\* is discarded and no building is returned.
C16_ThreeNodesKeptTwoDropped ==
    LET buildings == fetch_buildings_from_osm(osm).buildings
        refs == osm.refs
    IN  osm.outcome = "ok" /\ osm.tagged /\ DistinctResolved(osm)
        => /\ Len(refs) = 3 /\ PointOf(refs[1]) # PointOf(refs[3])
              => /\ Len(buildings) = 1
                 /\ Ring(buildings[1]) =
                        <<PointOf(refs[1]), PointOf(refs[2]), PointOf(refs[3]),
                          PointOf(refs[1])>>
           /\ Len(refs) = 2 => buildings = <<>>

\* get_buildings has answered with no building for a building-tagged way of
\* two distinct nodes at different places.
C16_Witness ==
    /\ resp.op = "get_buildings"
    /\ resp.status = 200
    /\ resp.body = <<>>
    /\ osm.outcome = "ok"
    /\ osm.tagged
    /\ Len(osm.refs) = 2
    /\ DistinctResolved(osm)
    /\ PointOf(osm.refs[1]) # PointOf(osm.refs[2])

\* C17: when the exchange with the service fails (a status other than 200, a
\* transport error, a payload that is not JSON or lacks expected keys),
\* fetch_buildings_from_osm returns the empty list and get_buildings answers
\* successfully with it.
C17_FailureGivesEmptyList ==
    [][get_buildings /\ osm.outcome # "ok"
        => /\ fetch_buildings_from_osm(osm) = [raised |-> FALSE, buildings |-> <<>>]
           /\ resp'.status = 200
           /\ resp'.body = <<>>]_vars

\* get_buildings has answered 200 with an empty list although the payload,
\* which did not parse, was to hold a building.
C17_Witness ==
    /\ resp.op = "get_buildings"
    /\ resp.status = 200
    /\ resp.body = <<>>
    /\ osm.outcome = "not_json"
    /\ osm.tagged
    /\ Len(osm.refs) = 4
    /\ DistinctResolved(osm)

\* C18: get_region_stats, get_roi_analysis (either of its reads) and
\* get_buildings leave the store as it is, whatever runs between them.
C18_ReadsLeaveStore ==
    [][get_region_stats \/ get_roi_analysis_sales \/ get_roi_analysis \/ get_buildings
        => store' = store]_vars

\* The region statistics have been served from a non-empty store between the
\* two reads of an analysis.
C18_Witness ==
    /\ resp.op = "get_region_stats"
    /\ roi.pc = "rent"
    /\ Len(store) >= 2

StoredIds == {store[k].id : k \in DOMAIN store}

\* C19: get_property and delete_property with an id that no stored record has
\* answer 404 and leave the store unchanged; delete_property removes no
\* record whose id differs from the requested one.
C19_UnknownIdIs404 ==
    [][\A id \in Ids :
        /\ (get_property(id) \/ delete_property(id)) /\ id \notin StoredIds
           => resp'.status = 404 /\ store' = store
        /\ delete_property(id)
           => \A k \in DOMAIN store :
                store[k].id # id => \E j \in DOMAIN store' : store'[j] = store[k]]_vars

\* A delete of an unknown id has answered 404 on a store of two records.
C19_Witness ==
    /\ resp.op = "delete_property"
    /\ resp.status = 404
    /\ Len(store) = 2

\* C20: across any single operation, a record whose id is in the store before
\* and after is the same record in both states.
C20_RecordsImmutable ==
    [][\A i \in DOMAIN store : \A j \in DOMAIN store' :
        store[i].id = store'[j].id => store[i] = store'[j]]_vars

\* A record has outlived the delete of another one and the insert of a third.
C20_Witness ==
    /\ resp.op = "create_property"
    /\ Len(store) = 2
    /\ store[1].id = 0
    /\ store[2].id = 2

\* A record without the fields that every parse assigns anew.
Strip(p) == [p EXCEPT !.id = 0, !.created_at = 0, !.updated_at = 0]

C22_RoiAnalysisSucceeds ==
    resp.op = "get_roi_analysis" => resp.status = 200

\* C23: once every concurrent import_default_data request has completed, the
\* store holds the accepted rows of the two files once, and the total that a
\* response reports is its sale count plus its rental count.
C23_ConcurrentImportsOneCopy ==
    /\ (salesFile.ok /\ rentalFile.ok /\ \A i \in Importers : pc[i] = "done")
       => Len(store) = Accepted(salesFile) + Accepted(rentalFile)
    /\ (resp.op = "import_default_data" /\ resp.status = 200)
       => resp.body[1] = resp.body[2] + resp.body[3]

====
